---- MODULE Spec2Model ----
(***************************************************************************)
(* A model of pzfx_parser.py: reading the tables of a Prism pzfx document. *)
(*                                                                         *)
(* A Python string that the program concatenates or parses is a sequence   *)
(* of one-character strings; attribute values and tags are strings.  Every *)
(* other Python value is a record: None, numpy.nan, a float, a list, an    *)
(* array, an index, a DataFrame, an exception.  An XML element is a record:*)
(* attrib is a function on the attributes present, texts is the .text of   *)
(* the element and of its descendants in the order of element.iter(),      *)
(* Title is the texts of its Title child, children are its other child     *)
(* elements in document order, Subcolumns are the d elements of each of    *)
(* its Subcolumn children.  Every Table and column has a Title child and   *)
(* every Table a TableType.                                                *)
(*                                                                         *)
(* Three specifications: SpecSub runs _subcolumn_to_numpy on a subcolumn,  *)
(* SpecTable runs _parse_xy_table on a table, Spec runs read_pzfx on a     *)
(* document.                                                               *)
(***************************************************************************)
EXTENDS Integers, Sequences, FiniteSets, TLC

VARIABLES
    pc,         \* the position of the running function
    raised,     \* the exception that left the running function, or None
    subcolumn,  \* _subcolumn_to_numpy: the sequence subcolumn.findall('d')
    di,         \* _subcolumn_to_numpy: how many d elements the loop has taken
    data,       \* _subcolumn_to_numpy: the local list `data`
    array,      \* _subcolumn_to_numpy: the value returned
    table,      \* _parse_xy_table: the Table element
    yformat,    \* _parse_xy_table: the local yformat
    xscounter,  \* _parse_xy_table: how many names xsubcolumn_names has given
    yscounter,  \* _parse_xy_table: how many names ysubcolumn_names has given
    index,      \* _parse_xy_table: the local index
    todo,       \* _parse_xy_table: what the running column loop has left
    columns,    \* _parse_xy_table: the dict `columns`, in insertion order
    maxlength,  \* _parse_xy_table: the local maxlength
    df,         \* _parse_xy_table: the DataFrame returned
    root,       \* read_pzfx: the root element of the parsed file
    ns,         \* read_pzfx: the local ns
    rest,       \* read_pzfx: the Table elements the comprehension has left
    key,        \* read_pzfx: the key of the item being evaluated
    extracted,  \* the DataFrames _parse_table_to_dataframe has returned so far
    tables      \* read_pzfx: the dict `tables`, in insertion order

subvars == <<subcolumn, di, data, array>>
xyvars == <<table, yformat, xscounter, yscounter, index, todo, columns,
            maxlength, df>>
readvars == <<root, ns, rest, key, extracted, tables>>
vars == <<pc, raised, subvars, xyvars, readvars>>

\* Python values are records: None, numpy.nan, a float, a list, an exception.
None == [py |-> "None"]
NaN == [py |-> "nan"]
List(s) == [list |-> s]

\* element.text of an element that has no text (strings are sequences)
NoText == <<"None">>

\* ---------------------------------------------------------------- bounds

MaxPoints == 2
MaxSubs == 2
MaxCols == 2
MaxRows == 1
MaxTables == 2

\* ------------------------------------------------------------ Python text

Digits == {"0", "1", "2", "3", "4", "5", "6", "7", "8", "9"}

DigitVal(c) ==
    CASE c = "0" -> 0 [] c = "1" -> 1 [] c = "2" -> 2 [] c = "3" -> 3
      [] c = "4" -> 4 [] c = "5" -> 5 [] c = "6" -> 6 [] c = "7" -> 7
      [] c = "8" -> 8 [] c = "9" -> 9

RECURSIVE GetAllText(_)
\* s = ''; for c in element.iter(): if c.text is not None: s += c.text
GetAllText(texts) ==
    IF texts = <<>> THEN <<>>
    ELSE IF Head(texts) = NoText THEN GetAllText(Tail(texts))
    ELSE Head(texts) \o GetAllText(Tail(texts))

RECURSIVE LStrip(_)
LStrip(s) == IF s # <<>> /\ Head(s) = " " THEN LStrip(Tail(s)) ELSE s

RECURSIVE RStrip(_)
RStrip(s) ==
    IF s # <<>> /\ s[Len(s)] = " " THEN RStrip(SubSeq(s, 1, Len(s) - 1)) ELSE s

RECURSIVE DigitsValue(_)
\* the integer written by a sequence of decimal digits
DigitsValue(s) ==
    IF s = <<>> THEN 0
    ELSE 10 * DigitsValue(SubSeq(s, 1, Len(s) - 1)) + DigitVal(s[Len(s)])

RECURSIVE Normal(_, _)
\* num / 10^exp with the trailing zeros of the fraction dropped: 1.50 = 1.5
Normal(num, exp) ==
    IF exp > 0 /\ num % 10 = 0 THEN Normal(num \div 10, exp - 1)
    ELSE [py |-> "float", num |-> num, exp |-> exp]

ValueError == [exc |-> "ValueError"]

\* float(s) for s over the digits, '.', '+', '-', ' ' and letters that are no
\* part of a number: surrounding blanks are dropped, then an optional sign,
\* then digits with at most one point and at least one digit.  The value is
\* the record [num, exp] for num / 10^exp; anything else is a ValueError.
Float(s) ==
    LET t == RStrip(LStrip(s))
        signed == t # <<>> /\ Head(t) \in {"+", "-"}
        body == IF signed THEN Tail(t) ELSE t
        points == {i \in 1..Len(body) : body[i] = "."}
        wellformed ==
            /\ \A i \in 1..Len(body) : body[i] \in Digits \cup {"."}
            /\ Cardinality(points) <= 1
            /\ \E i \in 1..Len(body) : body[i] \in Digits
        p == IF points = {} THEN Len(body) + 1 ELSE CHOOSE i \in points : TRUE
        whole == SubSeq(body, 1, p - 1)
        frac == SubSeq(body, p + 1, Len(body))
        mag == DigitsValue(whole \o frac)
    IN  IF ~wellformed THEN ValueError
        ELSE Normal(IF signed /\ Head(t) = "-" THEN 0 - mag ELSE mag, Len(frac))

\* ------------------------------------------------- _subcolumn_to_numpy

IsExcludedAttr(d) == "Excluded" \in DOMAIN d.attrib /\ d.attrib["Excluded"] = "1"

\* PointValue with the text parsed before the Excluded attribute is looked at
PointValueParsedFirst(d) ==
    IF GetAllText(d.texts) = <<>>
    THEN IF IsExcludedAttr(d) THEN NaN ELSE None
    ELSE IF Float(GetAllText(d.texts)) = ValueError THEN ValueError
    ELSE IF IsExcludedAttr(d) THEN NaN
    ELSE Float(GetAllText(d.texts))

\* What one pass of the loop body appends to `data` for the point d, or the
\* exception float() raises.
PointValue(d) ==
    IF ~(("Excluded" \in DOMAIN d.attrib) /\ (d.attrib["Excluded"] = "1"))
    THEN IF GetAllText(d.texts) = <<>> THEN None
         ELSE Float(GetAllText(d.texts))
    ELSE NaN

\* np.array(data): a list gives a one-dimensional array, float64 unless it
\* holds a None; None gives a zero-dimensional object array holding None.
NpArray(d) ==
    IF d = None THEN [shape |-> <<>>, dtype |-> "object", item |-> None]
    ELSE [shape |-> <<Len(d.list)>>,
          dtype |-> IF \E i \in 1..Len(d.list) : d.list[i] = None
                    THEN "object" ELSE "float64",
          item |-> d]

RECURSIVE SubcolumnData(_, _)
\* the try block: `data` after the loop over ds starting from acc, or None
\* when a point raised and the handler replaced the list
SubcolumnData(ds, acc) ==
    IF ds = <<>> THEN List(acc)
    ELSE IF PointValue(Head(ds)) = ValueError THEN None
    ELSE SubcolumnData(Tail(ds), Append(acc, PointValue(Head(ds))))

SubcolumnToNumpy(ds) == NpArray(SubcolumnData(ds, <<>>))

\* ------------------------------------------------------------- inputs

NoAttrib == [a \in {} |-> None]

Pieces == {NoText, <<"1">>, <<".", "5">>, <<"x">>}

\* a d element alone, or with one nested formatting element
PointTexts == {<<a>> : a \in Pieces} \cup {<<a, b>> : a \in Pieces, b \in Pieces}

PointAttribs == {NoAttrib, [Excluded |-> "1"], [Excluded |-> "0"]}

Points == [attrib : PointAttribs, texts : PointTexts]

SeqsUpTo(S, n) == UNION {[1..k -> S] : k \in 0..n}

Subcolumns == SeqsUpTo(Points, MaxPoints)

\* ------------------------------------------- _subcolumn_to_numpy, stepwise

InitSub ==
    /\ pc = "sub_loop"
    /\ raised = None
    /\ subcolumn \in Subcolumns
    /\ di = 0
    /\ data = List(<<>>)
    /\ array = None
    /\ table = None /\ yformat = None /\ xscounter = 0 /\ yscounter = 0
    /\ index = None /\ todo = <<>> /\ columns = <<>> /\ maxlength = 0
    /\ df = None
    /\ root = None /\ ns = None /\ rest = <<>> /\ key = <<>>
    /\ extracted = <<>> /\ tables = <<>>

\* one pass of the loop body that raises nothing
SubAppend ==
    /\ pc = "sub_loop"
    /\ di < Len(subcolumn)
    /\ PointValue(subcolumn[di + 1]) # ValueError
    /\ data' = List(Append(data.list, PointValue(subcolumn[di + 1])))
    /\ di' = di + 1
    /\ UNCHANGED <<pc, raised, subcolumn, array, xyvars, readvars>>

\* float() raises: the handler sets data = None and the loop is left
SubExcept ==
    /\ pc = "sub_loop"
    /\ di < Len(subcolumn)
    /\ PointValue(subcolumn[di + 1]) = ValueError
    /\ data' = None
    /\ pc' = "sub_return"
    /\ UNCHANGED <<raised, subcolumn, di, array, xyvars, readvars>>

SubLoopEnd ==
    /\ pc = "sub_loop"
    /\ di = Len(subcolumn)
    /\ pc' = "sub_return"
    /\ UNCHANGED <<raised, subcolumn, di, data, array, xyvars, readvars>>

SubReturn ==
    /\ pc = "sub_return"
    /\ array' = NpArray(data)
    /\ pc' = "sub_done"
    /\ UNCHANGED <<raised, subcolumn, di, data, xyvars, readvars>>

NextSub == SubAppend \/ SubExcept \/ SubLoopEnd \/ SubReturn

SpecSub == InitSub /\ [][NextSub]_vars

\* ------------------------------------------------------ _parse_xy_table

\* a Python str held by a local that may hold None instead
Str(s) == [str |-> s]

KeyError(k) == [exc |-> "KeyError", arg |-> k]
EmptyMax == [exc |-> "ValueError", arg |-> "max() arg is an empty sequence"]
AllScalars == [exc |-> "ValueError", arg |-> "all scalar values, no index"]
LengthMismatch == [exc |-> "ValueError", arg |-> "length mismatch"]

DigitChar(n) == CHOOSE c \in Digits : DigitVal(c) = n

RECURSIVE IntStr(_)
\* str(n) of an integer n >= 0
IntStr(n) ==
    IF n < 10 THEN <<DigitChar(n)>>
    ELSE IntStr(n \div 10) \o <<DigitChar(n % 10)>>

\* element.findall(tag): the direct children with that tag, in document order
FindAll(children, tag) == SelectSeq(children, LAMBDA c : c.tag = tag)

\* the name xsubcolumn_names() gives at its call number n, counted from 0
XSubcolumnName(n) == IntStr(n)

SenNames == << <<"M", "e", "a", "n">>, <<"S", "E", "M">>, <<"N">> >>
LimitNames == << <<"M", "e", "a", "n">>, <<"L", "o", "w", "e", "r">>,
                 <<"U", "p", "p", "e", "r">> >>

\* YSubcolumnName with the labels of SEN given for upper-lower-limits too
YSubcolumnNameOneCycle(yf, n) ==
    IF yf = Str("SEN") \/ yf = Str("upper-lower-limits")
    THEN SenNames[(n % 3) + 1]
    ELSE IntStr(n)

\* the name ysubcolumn_names() gives at its call number n, counted from 0:
\* cycle(...) repeats its three labels, count() goes on
YSubcolumnName(yf, n) ==
    IF yf = Str("SEN") THEN SenNames[(n % 3) + 1]
    ELSE IF yf = Str("upper-lower-limits") THEN LimitNames[(n % 3) + 1]
    ELSE IntStr(n)

RECURSIVE SubcolumnsOf(_)
\* for column in cols: name = text of its Title; for subcolumn in
\* column.findall('Subcolumn'): the pairs (name, subcolumn) in loop order
SubcolumnsOf(cols) ==
    IF cols = <<>> THEN <<>>
    ELSE [i \in 1..Len(Head(cols).Subcolumns) |->
             [title |-> GetAllText(Head(cols).Title),
              ds |-> Head(cols).Subcolumns[i]]]
         \o SubcolumnsOf(Tail(cols))

\* PlainThenAdvanced as one findall over both tags: document order
DocumentOrder(children, plain, advanced) ==
    SelectSeq(children, LAMBDA c : c.tag \in {plain, advanced})

PlainThenAdvanced(children, plain, advanced) ==
    FindAll(children, plain) \o FindAll(children, advanced)

\* chain(table.findall('XColumn'), table.findall('XAdvancedColumn'))
XChain(t) == PlainThenAdvanced(t.children, "XColumn", "XAdvancedColumn")

\* chain(table.findall('YColumn'), table.findall('YAdvancedColumn'))
YChain(t) == PlainThenAdvanced(t.children, "YColumn", "YAdvancedColumn")

\* the row-titles loop: every Subcolumn of every RowTitlesColumn replaces
\* index, so the last one stays; None when there is none
RowIndex(t) ==
    LET rows == SubcolumnsOf(FindAll(t.children, "RowTitlesColumn"))
        last == rows[Len(rows)].ds
    IN  IF rows = <<>> THEN None
        ELSE [index |-> [i \in 1..Len(last) |-> GetAllText(last[i].texts)]]

\* DictSet that leaves a key that is there alone
DictSetKeepFirst(d, k, v) ==
    IF \E i \in 1..Len(d) : d[i].k = k THEN d
    ELSE Append(d, [k |-> k, v |-> v])

\* columns[k] = v on a dict kept as the sequence of its items: a key that
\* is there keeps its place and takes the new value
DictSet(d, k, v) ==
    IF \E i \in 1..Len(d) : d[i].k = k
    THEN [i \in 1..Len(d) |-> IF d[i].k = k THEN [k |-> k, v |-> v] ELSE d[i]]
    ELSE Append(d, [k |-> k, v |-> v])

SubcolumnName(title, disc) == title \o <<"_">> \o disc

\* v.shape[0] if v.shape != () else 0
ShapeLength(v) == IF v.shape # <<>> THEN v.shape[1] ELSE 0

SetMax(S) == CHOOSE m \in S : \A n \in S : n <= m

\* NpPad without constant_values: np.pad fills with 0
NpPadZeros(v, after) ==
    IF v.shape = <<>> THEN v
    ELSE [shape |-> <<v.shape[1] + after>>, dtype |-> v.dtype,
          item |-> List(v.item.list
                        \o [i \in 1..after |-> [py |-> "float", num |-> 0, exp |-> 0]])]

\* np.pad(v, (0, after), mode='constant', constant_values=np.nan): a
\* zero-dimensional array has no axis to pad and comes back as it is
NpPad(v, after) ==
    IF v.shape = <<>> THEN v
    ELSE [shape |-> <<v.shape[1] + after>>, dtype |-> v.dtype,
          item |-> List(v.item.list \o [i \in 1..after |-> NaN])]

\* the padding loop over columns.items()
PadColumns(cols, maxlen) ==
    [i \in 1..Len(cols) |->
        [k |-> cols[i].k,
         v |-> IF cols[i].v.shape # <<>>
               THEN IF cols[i].v.shape[1] < maxlen
                    THEN NpPad(cols[i].v, maxlen - cols[i].v.shape[1])
                    ELSE cols[i].v
               ELSE NpPad(cols[i].v, maxlen - 0)]]

RangeIndex(n) == [range |-> n]

\* pd.DataFrame(columns, index=index) of a dict of arrays: the one-dimensional
\* arrays must agree in length with each other and with the index given; a
\* zero-dimensional array is a scalar, repeated over the rows; with scalars
\* only and no index there are no rows to fill
DataFrame(cols, idx) ==
    LET lens == {cols[i].v.shape[1] :
                    i \in {j \in 1..Len(cols) : cols[j].v.shape # <<>>}}
        Frame(ix, n) ==
            [index |-> ix,
             columns |-> [i \in 1..Len(cols) |->
                 [name |-> cols[i].k, dtype |-> cols[i].v.dtype,
                  values |-> IF cols[i].v.shape # <<>> THEN cols[i].v.item.list
                             ELSE [r \in 1..n |-> cols[i].v.item]]]]
    IN  IF idx = None
        THEN IF lens = {} THEN AllScalars
             ELSE IF Cardinality(lens) > 1 THEN LengthMismatch
             ELSE Frame(RangeIndex(SetMax(lens)), SetMax(lens))
        ELSE IF \E l \in lens : l # Len(idx.index) THEN LengthMismatch
             ELSE Frame(idx, Len(idx.index))

IsException(v) == "exc" \in DOMAIN v

\* --------------------------------------------- _parse_xy_table, stepwise

\* lines 42-59: the attributes and the two name generators
XYAttrs ==
    /\ pc = "xy_attrs"
    /\ IF "XFormat" \notin DOMAIN table.attrib
       THEN /\ raised' = KeyError("XFormat")
            /\ pc' = "raised"
            /\ UNCHANGED yformat
       ELSE IF "EVFormat" \notin DOMAIN table.attrib
       THEN /\ raised' = KeyError("EVFormat")
            /\ pc' = "raised"
            /\ UNCHANGED yformat
       ELSE /\ yformat' = IF "YFormat" \in DOMAIN table.attrib
                          THEN Str(table.attrib["YFormat"]) ELSE None
            /\ pc' = "xy_rows"
            /\ UNCHANGED raised
    /\ xscounter' = 0
    /\ yscounter' = 0
    /\ UNCHANGED <<readvars, subvars, table, index, todo, columns, maxlength, df>>

\* lines 61-69: the row titles, then columns = {} and the X loop starts
XYRowTitles ==
    /\ pc = "xy_rows"
    /\ index' = RowIndex(table)
    /\ columns' = <<>>
    /\ todo' = SubcolumnsOf(XChain(table))
    /\ pc' = "xy_x"
    /\ UNCHANGED <<raised, readvars, subvars, table, yformat, xscounter, yscounter,
                   maxlength, df>>

\* lines 73-74 for the next X subcolumn
XYStoreX ==
    /\ pc = "xy_x"
    /\ todo # <<>>
    /\ columns' = DictSet(columns,
                          SubcolumnName(Head(todo).title, XSubcolumnName(xscounter)),
                          SubcolumnToNumpy(Head(todo).ds))
    /\ xscounter' = xscounter + 1
    /\ todo' = Tail(todo)
    /\ UNCHANGED <<pc, raised, readvars, subvars, table, yformat, yscounter, index,
                   maxlength, df>>

\* the X loop is over, the Y loop starts
XYEndX ==
    /\ pc = "xy_x"
    /\ todo = <<>>
    /\ todo' = SubcolumnsOf(YChain(table))
    /\ pc' = "xy_y"
    /\ UNCHANGED <<raised, readvars, subvars, table, yformat, xscounter, yscounter,
                   index, columns, maxlength, df>>

\* lines 78-79 for the next Y subcolumn
XYStoreY ==
    /\ pc = "xy_y"
    /\ todo # <<>>
    /\ columns' = DictSet(columns,
                          SubcolumnName(Head(todo).title,
                                        YSubcolumnName(yformat, yscounter)),
                          SubcolumnToNumpy(Head(todo).ds))
    /\ yscounter' = yscounter + 1
    /\ todo' = Tail(todo)
    /\ UNCHANGED <<pc, raised, readvars, subvars, table, yformat, xscounter, index,
                   maxlength, df>>

XYEndY ==
    /\ pc = "xy_y"
    /\ todo = <<>>
    /\ pc' = "xy_max"
    /\ UNCHANGED <<raised, subvars, xyvars, readvars>>

\* line 81: max() of an empty list raises
XYMax ==
    /\ pc = "xy_max"
    /\ IF columns = <<>>
       THEN /\ raised' = EmptyMax
            /\ pc' = "raised"
            /\ UNCHANGED maxlength
       ELSE /\ maxlength' = SetMax({ShapeLength(columns[i].v) : i \in 1..Len(columns)})
            /\ pc' = "xy_pad"
            /\ UNCHANGED raised
    /\ UNCHANGED <<readvars, subvars, table, yformat, xscounter, yscounter, index, todo,
                   columns, df>>

\* lines 82-87
XYPad ==
    /\ pc = "xy_pad"
    /\ columns' = PadColumns(columns, maxlength)
    /\ pc' = "xy_frame"
    /\ UNCHANGED <<raised, readvars, subvars, table, yformat, xscounter, yscounter,
                   index, todo, maxlength, df>>

\* line 89
XYFrame ==
    /\ pc = "xy_frame"
    /\ IF IsException(DataFrame(columns, index))
       THEN /\ raised' = DataFrame(columns, index)
            /\ pc' = "raised"
            /\ UNCHANGED df
       ELSE /\ df' = DataFrame(columns, index)
            /\ pc' = "xy_return"
            /\ UNCHANGED raised
    /\ UNCHANGED <<readvars, subvars, table, yformat, xscounter, yscounter, index, todo,
                   columns, maxlength>>

NextTable ==
    \/ XYAttrs \/ XYRowTitles \/ XYStoreX \/ XYEndX \/ XYStoreY \/ XYEndY
    \/ XYMax \/ XYPad \/ XYFrame

\* ------------------------------------------------------- table inputs

Good1 == [attrib |-> NoAttrib, texts |-> << <<"1">> >>]
Good5 == [attrib |-> NoAttrib, texts |-> << <<".", "5">> >>]
Bad == [attrib |-> NoAttrib, texts |-> << <<"x">> >>]

\* no points; one number; two numbers; two points, the first no number
SubSamples == {<<>>, <<Good1>>, <<Good5, Good1>>, <<Bad, Good5>>}

ColumnTags == {"XColumn", "XAdvancedColumn", "YColumn", "YAdvancedColumn"}
TitleA == << <<"A">> >>
TitleB == << <<"B">> >>

Columns == [tag : ColumnTags, Title : {TitleA, TitleB},
            Subcolumns : SeqsUpTo(SubSamples, MaxSubs)]

RowTitle == [attrib |-> NoAttrib, texts |-> << <<"r">> >>]
RowTitlesColumns ==
    {[tag |-> "RowTitlesColumn", Title |-> <<NoText>>, Subcolumns |-> <<ds>>] :
        ds \in UNION {[1..n -> {RowTitle}] : n \in 1..MaxRows}}

\* at most one RowTitlesColumn, then the columns
ChildLists ==
    SeqsUpTo(Columns, MaxCols)
    \cup {<<r>> \o cs : r \in RowTitlesColumns, cs \in SeqsUpTo(Columns, MaxCols)}

\* the attributes of a Table element: any of the three formats may be absent
AttribsOver(keys) ==
    {a \in [keys -> {"XY", "numbers", "SEN", "upper-lower-limits", "replicates",
                     "AsteriskAfterNumber"}] :
        /\ a["TableType"] = "XY"
        /\ "XFormat" \in keys => a["XFormat"] = "numbers"
        /\ "EVFormat" \in keys => a["EVFormat"] = "AsteriskAfterNumber"
        /\ "YFormat" \in keys =>
               a["YFormat"] \in {"SEN", "upper-lower-limits", "replicates"}}

AllAttribs ==
    UNION {AttribsOver({"TableType"} \cup ks) :
              ks \in SUBSET {"XFormat", "YFormat", "EVFormat"}}

\* XFormat and EVFormat present, YFormat absent or SEN
MainAttribs ==
    {a \in AllAttribs :
        /\ {"XFormat", "EVFormat"} \subseteq DOMAIN a
        /\ "YFormat" \in DOMAIN a => a["YFormat"] = "SEN"}

TableTitle == << <<"T">> >>

XA1 == [tag |-> "XColumn", Title |-> TitleA, Subcolumns |-> << <<Good1>> >>]
YB2 == [tag |-> "YColumn", Title |-> TitleB,
        Subcolumns |-> << <<Good1>>, <<Good5>> >>]
XAdvB1 == [tag |-> "XAdvancedColumn", Title |-> TitleB,
           Subcolumns |-> << <<Good1>> >>]
YA2 == [tag |-> "YColumn", Title |-> TitleA,
        Subcolumns |-> << <<Good1>>, <<Good5>> >>]
YAdvA2 == [tag |-> "YAdvancedColumn", Title |-> TitleA,
           Subcolumns |-> << <<Good5, Good1>>, <<>> >>]

\* no column; an X and a Y column; an X column and four Y subcolumns
FewChildLists == {<<>>, <<XA1, YB2>>, <<XAdvB1, YA2, YAdvA2>>}

\* every list of children under the main attributes, a few lists of children
\* under every other combination of attributes
Tables ==
    [tag : {"Table"}, attrib : MainAttribs, Title : {TableTitle},
     children : ChildLists]
    \cup [tag : {"Table"}, attrib : AllAttribs \ MainAttribs,
          Title : {TableTitle}, children : FewChildLists]

InitTable ==
    /\ pc = "xy_attrs"
    /\ raised = None
    /\ subcolumn = <<>> /\ di = 0 /\ data = None /\ array = None
    /\ table \in Tables
    /\ yformat = None /\ xscounter = 0 /\ yscounter = 0
    /\ index = None /\ todo = <<>> /\ columns = <<>> /\ maxlength = 0
    /\ df = None
    /\ root = None /\ ns = None /\ rest = <<>> /\ key = <<>>
    /\ extracted = <<>> /\ tables = <<>>

SpecTable == InitTable /\ [][NextTable]_vars

\* ------------------------------------------------------------ read_pzfx

PrismFileLoadError(msg, arg) ==
    [exc |-> "PrismFileLoadError", msg |-> msg, arg |-> arg]

PrismNamespace == "http://graphpad.com/prism/Prism.htm"

RECURSIVE TablesUnder(_)
\* the Table elements among cs and below them, in document order
TablesUnder(cs) ==
    IF cs = <<>> THEN <<>>
    ELSE (IF Head(cs).tag = "Table" THEN <<Head(cs)>>
          ELSE TablesUnder(Head(cs).children))
         \o TablesUnder(Tail(cs))

\* DirectTables as root.iter('Table'): the tables at any depth
AllTables(r) == TablesUnder(r.children)

\* root.findall('Table', ns): the direct children named Table.  The elements
\* of a document carry the namespace of its root, under which ns looks them up.
DirectTables(r) == FindAll(r.children, "Table")

\* lines 109-114
ReadRoot ==
    /\ pc = "read_root"
    /\ IF root.tag = "GraphPadPrismFile"
       THEN ns' = None /\ pc' = "read_version" /\ UNCHANGED raised
       ELSE IF root.tag = "{http://graphpad.com/prism/Prism.htm}GraphPadPrismFile"
       THEN ns' = Str(PrismNamespace) /\ pc' = "read_version" /\ UNCHANGED raised
       ELSE /\ raised' = PrismFileLoadError("Not a Prism file!", "")
            /\ pc' = "raised"
            /\ UNCHANGED ns
    /\ UNCHANGED <<subvars, xyvars, root, rest, key, extracted, tables>>

\* lines 115-116, and the comprehension of line 118 starts
ReadVersion ==
    /\ pc = "read_version"
    /\ IF "PrismXMLVersion" \notin DOMAIN root.attrib
       THEN /\ raised' = KeyError("PrismXMLVersion")
            /\ pc' = "raised"
            /\ UNCHANGED <<rest, tables>>
       ELSE IF root.attrib["PrismXMLVersion"] # "5.00"
       THEN /\ raised' = PrismFileLoadError(
                    "Can only load Prism files with XML version 5.00!", "")
            /\ pc' = "raised"
            /\ UNCHANGED <<rest, tables>>
       ELSE /\ rest' = DirectTables(root)
            /\ tables' = <<>>
            /\ pc' = "read_next"
            /\ UNCHANGED raised
    /\ UNCHANGED <<subvars, xyvars, root, ns, key, extracted>>

\* line 118: the key of the next table, then its value is asked for
ReadKey ==
    /\ pc = "read_next"
    /\ rest # <<>>
    /\ key' = GetAllText(Head(rest).Title)
    /\ table' = Head(rest)
    /\ pc' = "table_type"
    /\ UNCHANGED <<raised, subvars, yformat, xscounter, yscounter, index, todo,
                   columns, maxlength, df, root, ns, rest, extracted, tables>>

\* _parse_table_to_dataframe, lines 94-99
ParseTableToDataframe ==
    /\ pc = "table_type"
    /\ IF "TableType" \notin DOMAIN table.attrib
       THEN raised' = KeyError("TableType") /\ pc' = "raised"
       ELSE IF \/ table.attrib["TableType"] = "XY"
               \/ table.attrib["TableType"] = "TwoWay"
               \/ table.attrib["TableType"] = "OneWay"
       THEN pc' = "xy_attrs" /\ UNCHANGED raised
       ELSE /\ raised' = PrismFileLoadError("Cannot parse %s tables for now!",
                                            table.attrib["TableType"])
            /\ pc' = "raised"
    /\ UNCHANGED <<subvars, xyvars, readvars>>

\* line 101 and the item of line 118: tables[key] = df
ReadStore ==
    /\ pc = "xy_return"
    /\ tables' = DictSet(tables, key, df)
    /\ extracted' = Append(extracted, df)
    /\ rest' = Tail(rest)
    /\ pc' = "read_next"
    /\ UNCHANGED <<raised, subvars, xyvars, root, ns, key>>

\* line 121
ReadReturn ==
    /\ pc = "read_next"
    /\ rest = <<>>
    /\ pc' = "read_return"
    /\ UNCHANGED <<raised, subvars, xyvars, readvars>>

Next ==
    \/ ReadRoot \/ ReadVersion \/ ReadKey \/ ParseTableToDataframe
    \/ XYAttrs \/ XYRowTitles \/ XYStoreX \/ XYEndX \/ XYStoreY \/ XYEndY
    \/ XYMax \/ XYPad \/ XYFrame
    \/ ReadStore \/ ReadReturn

\* ---------------------------------------------------- document inputs

TitleT == << <<"T">> >>
TitleU == << <<"U">>, <<"2">> >>

DocAttribs ==
    {[TableType |-> "XY", XFormat |-> "numbers",
      EVFormat |-> "AsteriskAfterNumber"],
     [TableType |-> "TwoWay", XFormat |-> "none", YFormat |-> "SEN",
      EVFormat |-> "AsteriskAfterNumber"],
     [TableType |-> "OneWay", XFormat |-> "none",
      YFormat |-> "upper-lower-limits", EVFormat |-> "AsteriskAfterNumber"],
     [TableType |-> "ColumnStats", XFormat |-> "none",
      EVFormat |-> "AsteriskAfterNumber"],
     [TableType |-> "XY", XFormat |-> "numbers", YFormat |-> "replicates",
      EVFormat |-> "AsteriskAfterNumber"],
     [TableType |-> "XY", YFormat |-> "SEN", EVFormat |-> "AsteriskAfterNumber"]}

XA2 == [tag |-> "XColumn", Title |-> TitleA,
        Subcolumns |-> << <<Good5, Good1>>, <<Good1>> >>]

\* the few lists of children, and one with three X subcolumns in two columns
\* and four Y subcolumns in two columns
DocChildLists == FewChildLists \cup {<<XA2, XAdvB1, YA2, YAdvA2>>}

DocTables == [tag : {"Table"}, attrib : DocAttribs, Title : {TitleT, TitleU},
              children : DocChildLists]

\* an element that is no Table and holds one
Folder ==
    [tag |-> "Folder", attrib |-> NoAttrib, Title |-> TitleT,
     children |-> <<[tag |-> "Table",
                     attrib |-> [TableType |-> "XY", XFormat |-> "numbers",
                                 EVFormat |-> "AsteriskAfterNumber"],
                     Title |-> TitleT,
                     children |-> <<XA1, YB2>>]>>]

RootTags == {"GraphPadPrismFile",
             "{http://graphpad.com/prism/Prism.htm}GraphPadPrismFile",
             "Workbook"}

RootAttribs == {NoAttrib, [PrismXMLVersion |-> "5.00"],
                [PrismXMLVersion |-> "4.00"]}

Roots == [tag : RootTags, attrib : RootAttribs,
          children : SeqsUpTo(DocTables \cup {Folder}, MaxTables)]

Init ==
    /\ pc = "read_root"
    /\ raised = None
    /\ subcolumn = <<>> /\ di = 0 /\ data = None /\ array = None
    /\ table = None /\ yformat = None /\ xscounter = 0 /\ yscounter = 0
    /\ index = None /\ todo = <<>> /\ columns = <<>> /\ maxlength = 0
    /\ df = None
    /\ root \in Roots
    /\ ns = None /\ rest = <<>> /\ key = <<>>
    /\ extracted = <<>> /\ tables = <<>>

Spec == Init /\ [][Next]_vars

\* ------------------------------------------------------------ the claims

Keys(d) == {d[i].k : i \in 1..Len(d)}
Suffix(s, k) == SubSeq(s, k + 1, Len(s))
NaNs(n) == [i \in 1..n |-> NaN]

\* ---- C2

IsExcluded(d) == "Excluded" \in DOMAIN d.attrib /\ d.attrib["Excluded"] = "1"
Unparseable(d) ==
    /\ ~IsExcluded(d)
    /\ GetAllText(d.texts) # <<>>
    /\ Float(GetAllText(d.texts)) = ValueError
ClaimedValue(d) ==
    IF IsExcluded(d) THEN NaN
    ELSE IF GetAllText(d.texts) = <<>> THEN None
    ELSE Float(GetAllText(d.texts))

\* C2: the points are taken in document order, one value per point: an
\* excluded point gives NaN whatever its text, a point with no text gives
\* None, any other gives the float of its text.  While no point taken so far
\* failed to parse, `data` holds exactly these values for the points taken,
\* and the array returned holds them for all the points.
C2_PointValues ==
    /\ (pc = "sub_loop" /\ data # None) =>
          /\ Len(data.list) = di
          /\ \A i \in 1..di : data.list[i] = ClaimedValue(subcolumn[i])
    /\ (pc = "sub_done" /\ \A i \in 1..Len(subcolumn) : ~Unparseable(subcolumn[i])) =>
          /\ array.shape = <<Len(subcolumn)>>
          /\ \A i \in 1..Len(subcolumn) :
                array.item.list[i] = ClaimedValue(subcolumn[i])

\* an excluded point with the text 'x', then the point '1' + '.5' = 1.5
C2_Witness ==
    /\ pc = "sub_done"
    /\ Len(subcolumn) = 2
    /\ IsExcluded(subcolumn[1]) /\ GetAllText(subcolumn[1].texts) = <<"x">>
    /\ subcolumn[2].texts = << <<"1">>, <<".", "5">> >>
    /\ array.item = List(<<NaN, [py |-> "float", num |-> 15, exp |-> 1]>>)

\* ---- the subcolumns of a table and the names they are stored under

YFormatOf(t) ==
    IF "YFormat" \in DOMAIN t.attrib THEN Str(t.attrib["YFormat"]) ELSE None

\* the subcolumns in the order the two loops take them, each with its name
GenItems(t) ==
    LET xs == SubcolumnsOf(XChain(t))
        ys == SubcolumnsOf(YChain(t))
    IN  [i \in 1..Len(xs) |->
            [name |-> SubcolumnName(xs[i].title, XSubcolumnName(i - 1)),
             ds |-> xs[i].ds]]
        \o [j \in 1..Len(ys) |->
            [name |-> SubcolumnName(ys[j].title,
                                    YSubcolumnName(YFormatOf(t), j - 1)),
             ds |-> ys[j].ds]]

\* the subcolumn stored last under a name
LastWith(items, name) ==
    items[CHOOSE i \in 1..Len(items) :
            /\ items[i].name = name
            /\ \A j \in (i + 1)..Len(items) : items[j].name # name]

\* what the subcolumn kept under column c of the DataFrame was extracted to
KeptArray(t, c) == SubcolumnToNumpy(LastWith(GenItems(t), c.name).ds)

DfColumns == {df.columns[i] : i \in 1..Len(df.columns)}

\* ---- C1

\* C1 as stated: the columns of a returned table all have the length of the
\* longest subcolumn of the table, counted in d points, and a column whose
\* values were extracted is these values followed by NaN.
C1_AsStated ==
    pc = "xy_return" =>
        LET items == GenItems(table)
            L == SetMax({Len(items[i].ds) : i \in 1..Len(items)})
        IN  \A c \in DfColumns :
                /\ Len(c.values) = L
                /\ KeptArray(table, c).shape # <<>> =>
                      c.values = KeptArray(table, c).item.list
                                 \o NaNs(L - Len(KeptArray(table, c).item.list))

\* C1, amended: the columns of a returned table all have one length.  Among
\* the subcolumns kept in the table (for each name the one stored last), take
\* those whose values were extracted: the length is the greatest number of
\* their values, or the number of row titles when no kept subcolumn was
\* extracted; and each of them is its values followed by NaN up to the length.
C1_EqualLengths ==
    pc = "xy_return" =>
        LET ok == {a \in {KeptArray(table, c) : c \in DfColumns} : a.shape # <<>>}
            L == IF ok # {} THEN SetMax({a.shape[1] : a \in ok})
                 ELSE Len(index.index)
        IN  \A c \in DfColumns :
                /\ Len(c.values) = L
                /\ KeptArray(table, c).shape # <<>> =>
                      c.values = KeptArray(table, c).item.list
                                 \o NaNs(L - Len(KeptArray(table, c).item.list))

\* a column of one value padded to two rows beside a column of two values
C1_Witness ==
    /\ pc = "xy_return"
    /\ \E c \in DfColumns :
          /\ KeptArray(table, c).shape = <<1>>
          /\ c.values = KeptArray(table, c).item.list \o <<NaN>>
    /\ \E c \in DfColumns : KeptArray(table, c).shape = <<2>>

\* ---- C3

C3Labels(t) ==
    IF "YFormat" \in DOMAIN t.attrib /\ t.attrib["YFormat"] = "SEN"
    THEN SenNames
    ELSE IF "YFormat" \in DOMAIN t.attrib
            /\ t.attrib["YFormat"] = "upper-lower-limits"
    THEN LimitNames
    ELSE <<>>

C3XName(xs, i) == xs[i + 1].title \o <<"_">> \o IntStr(i)

C3YName(t, ys, j) ==
    ys[j + 1].title \o <<"_">>
    \o (IF C3Labels(t) = <<>> THEN IntStr(j) ELSE C3Labels(t)[(j % 3) + 1])

\* C3: in every table of the document, when the loops have taken nx X
\* subcolumns and ny Y subcolumns, the names stored are those of X subcolumn
\* i with str(i) for i < nx and of Y subcolumn j, for j < ny, with the label
\* j mod 3 of Mean, SEM, N (YFormat SEN) or of Mean, Lower, Upper (YFormat
\* upper-lower-limits) or with str(j) (any other YFormat, or none): the
\* counts run on across the columns of a table and start again in each table.
C3_Discriminators ==
    pc \in {"xy_x", "xy_y", "xy_max"} =>
        LET xs == SubcolumnsOf(XChain(table))
            ys == SubcolumnsOf(YChain(table))
            nx == IF pc = "xy_x" THEN Len(xs) - Len(todo) ELSE Len(xs)
            ny == IF pc = "xy_x" THEN 0
                  ELSE IF pc = "xy_y" THEN Len(ys) - Len(todo) ELSE Len(ys)
        IN  Keys(columns) = {C3XName(xs, i) : i \in 0..(nx - 1)}
                            \cup {C3YName(table, ys, j) : j \in 0..(ny - 1)}

\* the second table of a document, after a first table of three X and four
\* Y subcolumns with no YFormat (A_0, A_1, B_2, A_2, A_3), with YFormat SEN,
\* three X subcolumns in two columns and four Y subcolumns in two columns:
\* the X names are again A_0, A_1 and, past the column boundary, B_2; the
\* fourth Y subcolumn is Mean again
C3_Witness ==
    /\ pc = "xy_max"
    /\ Len(extracted) = 1
    /\ {c.name : c \in {extracted[1].columns[i] :
                            i \in 1..Len(extracted[1].columns)}}
          = {<<"A", "_", "0">>, <<"A", "_", "1">>, <<"B", "_", "2">>,
             <<"A", "_", "2">>, <<"A", "_", "3">>}
    /\ table.children = <<XA2, XAdvB1, YA2, YAdvA2>>
    /\ yformat = Str("SEN")
    /\ xscounter = 3
    /\ yscounter = 4
    /\ Keys(columns) = {<<"A", "_", "0">>, <<"A", "_", "1">>, <<"B", "_", "2">>,
                        <<"A", "_", "M", "e", "a", "n">>,
                        <<"A", "_", "S", "E", "M">>, <<"A", "_", "N">>}

\* ---- C4

ValidRoot(r) ==
    /\ r.tag \in {"GraphPadPrismFile",
                  "{http://graphpad.com/prism/Prism.htm}GraphPadPrismFile"}
    /\ "PrismXMLVersion" \in DOMAIN r.attrib
    /\ r.attrib["PrismXMLVersion"] = "5.00"

\* C4: tables are extracted only from a document whose root tag is one of
\* the two accepted and whose PrismXMLVersion is "5.00"; for any other root
\* tag or version, or with no PrismXMLVersion, the load fails with
\* PrismFileLoadError and no table is extracted.
C4_Validation ==
    /\ pc \notin {"read_root", "read_version", "raised"} => ValidRoot(root)
    /\ (~ValidRoot(root) /\ pc \notin {"read_root", "read_version"}) =>
          /\ pc = "raised"
          /\ raised.exc = "PrismFileLoadError"
          /\ tables = <<>> /\ extracted = <<>>

\* ---- C5

Supported == {"XY", "TwoWay", "OneWay"}

UnsupportedTypes(r) ==
    {DirectTables(r)[i].attrib["TableType"] : i \in 1..Len(DirectTables(r))}
    \ Supported

\* C5: when a Table of a validated document has a TableType outside XY,
\* TwoWay, OneWay, the load ends with the PrismFileLoadError that names that
\* table type, and returns no mapping; the three supported types all go to
\* _parse_xy_table.
C5_UnsupportedType ==
    /\ (ValidRoot(root) /\ UnsupportedTypes(root) # {}) =>
          /\ pc # "read_return"
          /\ pc = "raised" =>
                /\ raised.exc = "PrismFileLoadError"
                /\ raised.arg \in UnsupportedTypes(root)
    /\ pc = "xy_attrs" => table.attrib["TableType"] \in Supported

\* ---- C6

RowCount(d) ==
    IF "range" \in DOMAIN d.index THEN d.index.range ELSE Len(d.index.index)

\* C6: a subcolumn whose extraction fails does not stop the table: the table
\* is returned, and the column is NaN in every row.
C6_FailedColumnIsNaN ==
    /\ raised # AllScalars
    /\ pc = "xy_return" =>
          \A c \in DfColumns :
              KeptArray(table, c).shape = <<>> => c.values = NaNs(RowCount(df))

\* ---- C7

\* the flattened titles of the children of the root that are Table elements
TitlesOf(r) ==
    LET ts == SelectSeq(r.children, LAMBDA c : c.tag = "Table")
    IN  [i \in 1..Len(ts) |-> GetAllText(ts[i].Title)]

\* C7: the mapping returned has exactly one entry for each flattened title
\* of a Table that is a direct child of the root, and the entry holds the
\* DataFrame extracted from the last such Table with that title.
C7_OneEntryPerTitle ==
    pc = "read_return" =>
        LET titles == TitlesOf(root)
        IN  /\ Keys(tables) = {titles[i] : i \in 1..Len(titles)}
            /\ Len(tables) = Cardinality(Keys(tables))
            /\ Len(extracted) = Len(titles)
            /\ \A n \in 1..Len(tables) :
                  \E i \in 1..Len(titles) :
                      /\ titles[i] = tables[n].k
                      /\ \A j \in (i + 1)..Len(titles) : titles[j] # titles[i]
                      /\ tables[n].v = extracted[i]

\* two tables with one title and different contents: one entry, the second's
C7_Witness ==
    /\ pc = "read_return"
    /\ Len(extracted) = 2
    /\ extracted[1] # extracted[2]
    /\ tables = <<[k |-> <<"U", "2">>, v |-> extracted[2]]>>

\* ---- C8

\* C8: a table without XFormat, YFormat or EVFormat is extracted all the
\* same: reading the attributes raises no KeyError.
C8_FormatsOptional ==
    raised \notin {KeyError("XFormat"), KeyError("YFormat"), KeyError("EVFormat")}

\* ---- C9

C9Plain(t, plain, advanced) ==
    SubcolumnsOf(SelectSeq(t.children, LAMBDA c : c.tag = plain)
                 \o SelectSeq(t.children, LAMBDA c : c.tag = advanced))

C9Document(t, plain, advanced) ==
    SubcolumnsOf(SelectSeq(t.children, LAMBDA c : c.tag \in {plain, advanced}))

C9Visits(xs, ys) ==
    /\ pc = "xy_x" =>
          /\ todo = Suffix(xs, xscounter)
          /\ yscounter = 0
    /\ pc = "xy_y" =>
          /\ xscounter = Len(xs)
          /\ todo = Suffix(ys, yscounter)
    /\ pc \in {"xy_x", "xy_y", "xy_max"} =>
          /\ \A i \in 1..xscounter :
                SubcolumnName(xs[i].title, XSubcolumnName(i - 1)) \in Keys(columns)
          /\ \A j \in 1..yscounter :
                SubcolumnName(ys[j].title, YSubcolumnName(yformat, j - 1))
                    \in Keys(columns)

\* C9 as stated: the X columns are taken in document order, plain and
\* advanced alike, and so are the Y columns, after all the X columns.
C9_AsStated ==
    C9Visits(C9Document(table, "XColumn", "XAdvancedColumn"),
             C9Document(table, "YColumn", "YAdvancedColumn"))

\* C9, amended: the XColumn elements are taken first, in document order, and
\* the XAdvancedColumn elements after them, in document order, whatever their
\* places in the document; then the YColumn elements and after them the
\* YAdvancedColumn elements.  Each subcolumn gets the next discriminator as it
\* is taken, and all X subcolumns are stored before any Y subcolumn.
C9_PlainBeforeAdvanced ==
    C9Visits(C9Plain(table, "XColumn", "XAdvancedColumn"),
             C9Plain(table, "YColumn", "YAdvancedColumn"))

\* an XAdvancedColumn A before an XColumn B in the document: B_0 and A_1
C9_Witness ==
    /\ pc = "xy_max"
    /\ Len(table.children) = 2
    /\ table.children[1].tag = "XAdvancedColumn"
    /\ table.children[1].Title = TitleA
    /\ table.children[2].tag = "XColumn"
    /\ table.children[2].Title = TitleB
    /\ Keys(columns) = {<<"B", "_", "0">>, <<"A", "_", "1">>}

\* ---- C10

\* C10: the columns of a returned table have pairwise different names, the
\* names generated for its subcolumns, one column for each different name;
\* the column of a name begins with the values extracted from the subcolumn
\* stored last under that name.
C10_LastWriteWins ==
    pc = "xy_return" =>
        LET items == GenItems(table)
            names == {items[i].name : i \in 1..Len(items)}
        IN  /\ {c.name : c \in DfColumns} = names
            /\ Len(df.columns) = Cardinality(names)
            /\ \A c \in DfColumns :
                  KeptArray(table, c).shape # <<>> =>
                      /\ Len(c.values) >= KeptArray(table, c).shape[1]
                      /\ SubSeq(c.values, 1, KeptArray(table, c).shape[1])
                             = KeptArray(table, c).item.list

\* YFormat SEN and four Y subcolumns of one title: the first holds two
\* values, the fourth one, and the column Mean is the fourth
C10_Witness ==
    /\ pc = "xy_return"
    /\ yformat = Str("SEN")
    /\ Len(GenItems(table)) = 4
    /\ GenItems(table)[1].name = GenItems(table)[4].name
    /\ GenItems(table)[1].ds = <<Good5, Good1>>
    /\ GenItems(table)[4].ds = <<Good1>>
    /\ Len(df.columns) = 3
    /\ df.columns[1].values = <<[py |-> "float", num |-> 1, exp |-> 0], NaN>>

====
